---- MODULE Spec2Model ----
(***************************************************************************)
(* Verification model of projects/KTNv2/densepose/densepose_head.py.       *)
(*                                                                         *)
(* The file is a collection of independent operations (data filter,        *)
(* inference post-processing, grid sampling, predictors, losses).  Each    *)
(* operation is modelled by its own group of variables and actions and     *)
(* has its own specification (SpecFilter, SpecInference, ...); the         *)
(* variables of the other groups stay at their idle value.                 *)
(*                                                                         *)
(* Conventions                                                             *)
(*   - Python None is the string "None".                                   *)
(*   - a tensor is represented by what the properties need: its row        *)
(*     indices, its name in the computation graph, or a fixed-point value. *)
(*   - real numbers are exact rationals (numerator over a stated           *)
(*     denominator) or per-mille fixed point; a float NaN is "NaN".        *)
(***************************************************************************)
EXTENDS Integers, Sequences, FiniteSets, TLC

VARIABLES
    pc,                      \* position of the operation being run
    \* ---- DensePoseDataFilter ----
    iou_threshold,           \* self.iou_threshold
    keep_masks,              \* self.keep_masks
    features,                \* argument: list of feature tensors
    proposals_with_targets,  \* argument: list of Instances
    proposals_filtered,      \* local list built by __call__
    filter_i,                \* loop index i of __call__ (1-based)
    filter_ret,              \* returned pair, "None" before the return
    \* ---- densepose_inference / sabl_inference ----
    infer_fn,                \* which of the two functions is running
    detections,              \* argument: len(detection) of every detection
    conf_names,              \* the entries of densepose_confidences that are not None
    infer_k,                 \* local k
    infer_i,                 \* position of the loop over detections (1-based)
    block_rows,              \* sabl_inference: block_u_width.shape[0]
    pred_densepose,          \* detection.pred_densepose of every detection
    \* ---- predictor confidences and the loss objects ----
    loss_cfg,                \* the cfg both the predictor and the loss are built from
    loss_kind,               \* DensePoseLosses, SABLLosses or KTNLosses
    outputs_len,             \* len(densepose_outputs) handed to the loss
    proposals_with_gt,       \* argument of the loss: list of Instances
    densepose_confidences,   \* third result of the predictor's forward
    loss_result,             \* what the loss call returned or raised
    \* ---- _grid_sampling_utilities ----
    grid_args,               \* arguments: one point, its two boxes, zh and zw
    grid_x,                  \* x_lo, x_hi, x_w, jx_valid
    grid_y,                  \* y_lo, y_hi, y_w, jy_valid
    grid_ret,                \* the returned tuple, "None" before the return
    \* ---- confidence values ----
    conf_cfg,                \* uv_confidence.epsilon and segm_confidence.epsilon
    conf_raw,                \* one element of a raw network output
    conf_out,                \* the confidence value computed from it
    \* ---- the KTN predictors ----
    ktn_cfg,                 \* the class, the cfg entries and the pickled shapes
    ktn_predictor,           \* the constructed module's parameter shapes, or the exception
    ktn_ret,                 \* result of cascade_generate_surface_weights
    \* ---- AEQL weights of the part classification loss ----
    aeql_in,                 \* one row of index_uv_est and its index_uv_gt
    aeql_topk,               \* top_index of the row and mi
    aeql_w,                  \* the row of eql_w, "None" before it is computed
    \* ---- dp_keypoint_rcnn_loss ----
    kpt_args,                \* arguments: instances, normalizer, keypoints per instance
    kpt_i,                   \* position of the loop over instances (1-based)
    kpt_heatmaps,            \* local list heatmaps: the global rows of every appended block
    kpt_valid,               \* local list valid: the flags of every appended block
    kpt_ret,                 \* the returned loss, "None" before the return
    \* ---- _extract_single_tensors_from_matches ----
    ext_args,                \* argument proposals_with_targets and the variant run
    ext_i,                   \* position of the loop over images (1-based)
    ext_n,                   \* local n
    ext_lists,               \* the local *_all lists and i_img
    ext_ret                  \* the returned tuple, "None" before the return

filterVars == <<iou_threshold, keep_masks, features, proposals_with_targets,
                proposals_filtered, filter_i, filter_ret>>

inferVars == <<infer_fn, detections, conf_names, infer_k, infer_i, block_rows,
               pred_densepose>>

lossVars == <<loss_cfg, loss_kind, outputs_len, proposals_with_gt,
              densepose_confidences, loss_result>>

gridVars == <<grid_args, grid_x, grid_y, grid_ret>>

confVars == <<conf_cfg, conf_raw, conf_out>>

ktnVars == <<ktn_cfg, ktn_predictor, ktn_ret>>

aeqlVars == <<aeql_in, aeql_topk, aeql_w>>

kptVars == <<kpt_args, kpt_i, kpt_heatmaps, kpt_valid, kpt_ret>>

extVars == <<ext_args, ext_i, ext_n, ext_lists, ext_ret>>

vars == <<pc, filterVars, inferVars, lossVars, gridVars, confVars, ktnVars, aeqlVars,
          kptVars, extVars>>

None == "None"

(***************************************************************************)
(* Idle values: what the variables of an operation hold while another      *)
(* operation is the one being run.                                         *)
(***************************************************************************)
IdleFilter ==
    /\ iou_threshold = 0
    /\ keep_masks = FALSE
    /\ features = <<>>
    /\ proposals_with_targets = <<>>
    /\ proposals_filtered = <<>>
    /\ filter_i = 0
    /\ filter_ret = None

IdleInference ==
    /\ infer_fn = None
    /\ detections = <<>>
    /\ conf_names = {}
    /\ infer_k = 0
    /\ infer_i = 0
    /\ block_rows = 0
    /\ pred_densepose = <<>>

IdleLosses ==
    /\ loss_cfg = None
    /\ loss_kind = None
    /\ outputs_len = 0
    /\ proposals_with_gt = <<>>
    /\ densepose_confidences = None
    /\ loss_result = None

IdleGrid ==
    /\ grid_args = None
    /\ grid_x = None
    /\ grid_y = None
    /\ grid_ret = None

IdleConfidence ==
    /\ conf_cfg = None
    /\ conf_raw = None
    /\ conf_out = None

IdleKTN ==
    /\ ktn_cfg = None
    /\ ktn_predictor = None
    /\ ktn_ret = None

IdleAEQL ==
    /\ aeql_in = None
    /\ aeql_topk = None
    /\ aeql_w = None

IdleKeypointLoss ==
    /\ kpt_args = None
    /\ kpt_i = 0
    /\ kpt_heatmaps = <<>>
    /\ kpt_valid = <<>>
    /\ kpt_ret = None

IdleExtract ==
    /\ ext_args = None
    /\ ext_i = 0
    /\ ext_n = 0
    /\ ext_lists = None
    /\ ext_ret = None

\* every operation but the one named is idle
OthersIdle(op) ==
    /\ IF op = "filter" THEN TRUE ELSE IdleFilter
    /\ IF op = "inference" THEN TRUE ELSE IdleInference
    /\ IF op = "losses" THEN TRUE ELSE IdleLosses
    /\ IF op = "grid" THEN TRUE ELSE IdleGrid
    /\ IF op = "confidence" THEN TRUE ELSE IdleConfidence
    /\ IF op = "ktn" THEN TRUE ELSE IdleKTN
    /\ IF op = "aeql" THEN TRUE ELSE IdleAEQL
    /\ IF op = "keypoint_loss" THEN TRUE ELSE IdleKeypointLoss
    /\ IF op = "extract" THEN TRUE ELSE IdleExtract

\* the variables an operation leaves alone
notFilter ==
    <<inferVars, lossVars, gridVars, confVars,
      ktnVars, aeqlVars, kptVars, extVars>>
notInference ==
    <<filterVars, lossVars, gridVars, confVars,
      ktnVars, aeqlVars, kptVars, extVars>>
notLosses ==
    <<filterVars, inferVars, gridVars, confVars,
      ktnVars, aeqlVars, kptVars, extVars>>
notGrid ==
    <<filterVars, inferVars, lossVars, confVars,
      ktnVars, aeqlVars, kptVars, extVars>>
notConfidence ==
    <<filterVars, inferVars, lossVars, gridVars,
      ktnVars, aeqlVars, kptVars, extVars>>
notKTN ==
    <<filterVars, inferVars, lossVars, gridVars,
      confVars, aeqlVars, kptVars, extVars>>
notAEQL ==
    <<filterVars, inferVars, lossVars, gridVars,
      confVars, ktnVars, kptVars, extVars>>
notKeypointLoss ==
    <<filterVars, inferVars, lossVars, gridVars,
      confVars, ktnVars, aeqlVars, extVars>>
notExtract ==
    <<filterVars, inferVars, lossVars, gridVars,
      confVars, ktnVars, aeqlVars, kptVars>>

Range(s) == {s[k] : k \in 1..Len(s)}

RECURSIVE SumSeq(_)
SumSeq(s) == IF s = <<>> THEN 0 ELSE s[1] + SumSeq(Tail(s))

Min(a, b) == IF a < b THEN a ELSE b
Max(a, b) == IF a > b THEN a ELSE b

(***************************************************************************)
(* Bounds of the model.                                                    *)
(***************************************************************************)
MaxImages == 2      \* images in a batch
MaxProps == 2       \* proposals of one image
IouMax == 1         \* IoU values and thresholds are 0..IouMax
NumLevels == 2      \* feature maps in the features list
MaxDetections == 3  \* images passed to the inference functions
MaxInstances == 2   \* instances of one detection
MaxGtImages == 2    \* images in the batch handed to a loss
MaxBoxes == 2       \* proposal boxes of one such image
MaxPoints == 1      \* annotated points of one box

(***************************************************************************)
(* DensePoseDataFilter                                                     *)
(*                                                                         *)
(* An Instances object is [has_dp, has_masks, props]: has_dp / has_masks   *)
(* say whether the fields gt_densepose / gt_masks exist, props is the      *)
(* sequence of its rows.  A row is [id, iou, dp, mask]: id is the row's    *)
(* position in the input, iou the IoU of its matched gt box and proposal   *)
(* box (matched_boxlist_iou is external), dp / mask tell whether the       *)
(* gt_densepose / gt_masks target of the row is not None.                  *)
(***************************************************************************)
PropRows(n, has_dp, has_masks) ==
    { [k \in 1..n |-> [id |-> k, iou |-> f[k].iou, dp |-> f[k].dp, mask |-> f[k].mask]] :
        f \in [1..n -> [iou : 0..IouMax,
                        dp : IF has_dp THEN BOOLEAN ELSE {FALSE},
                        mask : IF has_masks THEN BOOLEAN ELSE {FALSE}]] }

InstancesSet ==
    UNION { { [has_dp |-> d, has_masks |-> m, props |-> p] : p \in PropRows(n, d, m) } :
            <<n, d, m>> \in (0..MaxProps) \X BOOLEAN \X BOOLEAN }

Batches == UNION { [1..n -> InstancesSet] : n \in 0..MaxImages }

\* features: NumLevels tensors whose axis 0 is the image; entry <<l, n>> names
\* the slice of image n in feature map l
FeaturesFor(n) == [l \in 1..NumLevels |-> [k \in 1..n |-> <<l, k>>]]

\* Instances.has(name)
Has(inst, name) == IF name = "gt_densepose" THEN inst.has_dp ELSE inst.has_masks

\* line 1334: the image is skipped
SkipImage(inst, keep) ==
    ~Has(inst, "gt_densepose") /\ (~Has(inst, "gt_masks") \/ ~keep)

IouSelectGE(iou, thr) == iou >= thr

\* line 1343: iou > self.iou_threshold
IouSelect(iou, thr) == iou > thr

\* lines 1352-1364: the per-row targets zipped at line 1369
GtMasks(inst, rows, keep) ==
    IF keep
    THEN IF Has(inst, "gt_masks") THEN [k \in 1..Len(rows) |-> rows[k].mask]
         ELSE [k \in 1..Len(rows) |-> FALSE]
    ELSE [k \in 1..Len(rows) |-> FALSE]

GtDensepose(inst, rows) ==
    IF Has(inst, "gt_densepose") THEN [k \in 1..Len(rows) |-> rows[k].dp]
    ELSE [k \in 1..Len(rows) |-> FALSE]

\* line 1370: (dp_target is not None) or (mask_target is not None)
Selected(dp_target, mask_target) == dp_target \/ mask_target

RECURSIVE SelectedIndicesFrom(_, _, _)
SelectedIndicesFrom(gt_densepose, gt_masks, k) ==
    IF k > Len(gt_densepose) THEN <<>>
    ELSE (IF Selected(gt_densepose[k], gt_masks[k]) THEN <<k>> ELSE <<>>)
         \o SelectedIndicesFrom(gt_densepose, gt_masks, k + 1)

\* Instances.__getitem__ with a list of indices
IndexRows(rows, idx) == [k \in 1..Len(idx) |-> rows[idx[k]]]

\* lines 1339-1377 for one image: the filtered Instances
FilterOneImage(inst, thr, keep) ==
    LET rows1 == SelectSeq(inst.props, LAMBDA p : IouSelect(p.iou, thr))
        N_gt_boxes == Len(rows1)
        gt_masks == GtMasks(inst, rows1, keep)
        gt_densepose == GtDensepose(inst, rows1)
        selected_indices == SelectedIndicesFrom(gt_densepose, gt_masks, 1)
        rows2 == IF Len(selected_indices) # N_gt_boxes
                 THEN IndexRows(rows1, selected_indices)
                 ELSE rows1
    IN [inst EXCEPT !.props = rows2]

InitFilter ==
    /\ pc = "filter_loop"
    /\ iou_threshold \in 0..IouMax
    /\ keep_masks \in BOOLEAN
    /\ proposals_with_targets \in Batches
    /\ features = FeaturesFor(Len(proposals_with_targets))
    /\ proposals_filtered = <<>>
    /\ filter_i = 1
    /\ filter_ret = None
    /\ OthersIdle("filter")

\* loop iteration that hits `continue` (lines 1334-1338)
FilterSkipImage ==
    /\ pc = "filter_loop"
    /\ filter_i <= Len(proposals_with_targets)
    /\ SkipImage(proposals_with_targets[filter_i], keep_masks)
    /\ filter_i' = filter_i + 1
    /\ UNCHANGED <<pc, iou_threshold, keep_masks, features, proposals_with_targets,
                   proposals_filtered, filter_ret>>
    /\ UNCHANGED notFilter

\* loop iteration that filters the image and appends it (lines 1339-1378)
FilterKeepImage ==
    /\ pc = "filter_loop"
    /\ filter_i <= Len(proposals_with_targets)
    /\ ~SkipImage(proposals_with_targets[filter_i], keep_masks)
    /\ proposals_filtered' =
           Append(proposals_filtered,
                  FilterOneImage(proposals_with_targets[filter_i], iou_threshold, keep_masks))
    /\ filter_i' = filter_i + 1
    /\ UNCHANGED <<pc, iou_threshold, keep_masks, features, proposals_with_targets,
                   filter_ret>>
    /\ UNCHANGED notFilter

\* the commented-out variant (lines 1328-1332, 1379-1380): features sliced by
\* feature_mask, which is cleared for every skipped image
ReturnedFeaturesSliced(feats, batch, keep) ==
    LET kept == SelectSeq([k \in 1..Len(batch) |-> k],
                          LAMBDA k : ~SkipImage(batch[k], keep))
    IN [l \in 1..Len(feats) |-> [j \in 1..Len(kept) |-> feats[l][kept[j]]]]

\* line 1381: the features object is returned as it came in
ReturnedFeatures(feats, batch, keep) == feats

FilterReturn ==
    /\ pc = "filter_loop"
    /\ filter_i > Len(proposals_with_targets)
    /\ filter_ret' = <<ReturnedFeatures(features, proposals_with_targets, keep_masks),
                      proposals_filtered>>
    /\ pc' = "filter_done"
    /\ UNCHANGED <<iou_threshold, keep_masks, features, proposals_with_targets,
                   proposals_filtered, filter_i>>
    /\ UNCHANGED notFilter

NextFilter == FilterSkipImage \/ FilterKeepImage \/ FilterReturn

SpecFilter == InitFilter /\ [][NextFilter]_vars

\* the images of the batch that lines 1334-1338 do not skip, in order
ProcessedUpTo(n) ==
    SelectSeq([k \in 1..n |-> k],
              LAMBDA k : Has(proposals_with_targets[k], "gt_densepose")
                         \/ (Has(proposals_with_targets[k], "gt_masks") /\ keep_masks))

\* conditions (a) and (b) of the filter, read off the input row
RowIsRelevant(p) ==
    /\ p.iou > iou_threshold
    /\ (p.dp \/ (keep_masks /\ p.mask))

\* C1: a proposal of a processed image is kept if and only if its IoU is
\* strictly above FG_IOU_THRESHOLD and it has a gt_densepose target or, with
\* COARSE_SEGM_TRAINED_BY_MASKS on, a gt_masks target; the survivors keep
\* their relative order (and the processed images theirs).
ThmFilterKeepsRelevant ==
    LET done == Min(filter_i - 1, Len(proposals_with_targets))
        processed == ProcessedUpTo(done)
    IN pc \in {"filter_loop", "filter_done"} =>
         /\ Len(proposals_filtered) = Len(processed)
         /\ \A j \in 1..Len(processed) :
               LET inp == proposals_with_targets[processed[j]].props
                   out == proposals_filtered[j].props
               IN /\ \A k \in 1..Len(inp) :
                        (inp[k] \in Range(out)) <=> RowIsRelevant(inp[k])
                  /\ Range(out) \subseteq Range(inp)
                  /\ \A a, b \in 1..Len(out) : a < b => out[a].id < out[b].id

\* C1 witness: the call has returned, one image was skipped, and a processed
\* image kept a row (by its mask target alone) and lost a row to the threshold
WitFilterKeepsRelevant ==
    /\ pc = "filter_done"
    /\ Len(proposals_filtered) < Len(proposals_with_targets)
    /\ \E j \in 1..Len(proposals_filtered) :
          LET k == ProcessedUpTo(Len(proposals_with_targets))[j]
              inp == proposals_with_targets[k].props
              out == proposals_filtered[j].props
          IN /\ Len(inp) = 2 /\ Len(out) = 1
             /\ ~out[1].dp /\ out[1].mask
             /\ \E r \in Range(inp) : r.iou = iou_threshold /\ r.dp

\* C2: the returned feature list is the input feature list: same tensors, one
\* slice per input image, same order, whatever happens to the proposals.
ThmFilterFeaturesUnchanged ==
    pc = "filter_done" =>
        /\ filter_ret[1] = FeaturesFor(Len(proposals_with_targets))
        /\ filter_ret[1] = features
        /\ filter_ret[2] = proposals_filtered

\* C2 witness: returned after an image was dropped from the proposal list and
\* another one lost all of its proposals
WitFilterFeaturesUnchanged ==
    /\ pc = "filter_done"
    /\ Len(filter_ret[2]) < Len(proposals_with_targets)
    /\ \E j \in 1..Len(filter_ret[2]) :
          /\ filter_ret[2][j].props = <<>>
          /\ proposals_with_targets[ProcessedUpTo(Len(proposals_with_targets))[j]].props # <<>>

(***************************************************************************)
(* densepose_inference and sabl_inference                                  *)
(*                                                                         *)
(* Every output tensor has one row per instance of the batch, N rows in    *)
(* all; a slice of a tensor is the sequence of the row indices it holds    *)
(* (0-based, as in the source).  DensePoseOutput is the record of the      *)
(* slices it is built from.                                                *)
(***************************************************************************)
DetectionLists == UNION { [1..n -> 0..MaxInstances] : n \in 0..MaxDetections }

\* possible contents of densepose_confidences: the names that are not None
ConfidenceSets == { {}, {"sigma_2"}, {"sigma_2", "kappa_u", "kappa_v"},
                    {"fine_segm_confidence", "coarse_segm_confidence"} }

\* N: the number of rows of every output tensor (docstring, line 1413)
NumRows(dets) == SumSeq(dets)

\* Python slicing t[a : b] of a tensor of n rows, 0 <= a <= b
PySlice(n, a, b) ==
    LET lo == Min(a, n)
        hi == Min(b, n)
    IN [j \in 1..(hi - lo) |-> lo + j - 1]

\* lines 1456-1467 / 1538-1549: the confidences dictionary
SliceConfidences(n, names, a, b) == [c \in names |-> PySlice(n, a, b)]

\* a detection that has no pred_densepose attribute yet
NoAttribute == [missing |-> TRUE]

HasPredDensepose(d) == "s" \in DOMAIN d

NextKByOne(k, n_i) == k + 1

\* lines 1470 / 1552: k += n_i
NextK(k, n_i) == k + n_i

InitInference ==
    /\ pc = "infer_loop"
    /\ infer_fn \in {"densepose_inference", "sabl_inference"}
    /\ detections \in DetectionLists
    /\ conf_names \in ConfidenceSets
    /\ infer_k = 0
    /\ infer_i = 1
    /\ block_rows = 1            \* lines 1493-1496: leading dimension 1
    /\ pred_densepose = [d \in 1..Len(detections) |-> NoAttribute]
    /\ OthersIdle("inference")

\* one iteration of the loop of densepose_inference (lines 1449-1470)
DenseposeInferenceStep ==
    /\ pc = "infer_loop"
    /\ infer_fn = "densepose_inference"
    /\ infer_i <= Len(detections)
    /\ LET n == NumRows(detections)
           n_i == detections[infer_i]
           k == infer_k
           s_i == PySlice(n, k, k + n_i)
           index_uv_i == PySlice(n, k, k + n_i)
           u_i == PySlice(n, k, k + n_i)
           v_i == PySlice(n, k, k + n_i)
           confidences == SliceConfidences(n, conf_names, k, k + n_i)
       IN /\ pred_densepose' =
                 [pred_densepose EXCEPT ![infer_i] =
                     [s |-> s_i, index_uv |-> index_uv_i, u |-> u_i, v |-> v_i,
                      confidences |-> confidences]]
          /\ infer_k' = NextK(k, n_i)
    /\ infer_i' = infer_i + 1
    /\ UNCHANGED <<pc, infer_fn, detections, conf_names, block_rows>>
    /\ UNCHANGED notInference

\* an iteration of the loop of sabl_inference for a detection without
\* instances (lines 1507-1514, 1537-1552)
SablInferenceStepEmpty ==
    /\ pc = "infer_loop"
    /\ infer_fn = "sabl_inference"
    /\ infer_i <= Len(detections)
    /\ detections[infer_i] = 0
    /\ LET n == NumRows(detections)
           n_i == detections[infer_i]
           k == infer_k
           s_i == PySlice(n, k, k + n_i)
           index_uv_i == PySlice(n, k, k + n_i)
           u_i == PySlice(n, k, k + n_i)       \* index_uv[k : k + n_i]
           v_i == PySlice(n, k, k + n_i)
           confidences == SliceConfidences(n, conf_names, k, k + n_i)
       IN /\ pred_densepose' =
                 [pred_densepose EXCEPT ![infer_i] =
                     [s |-> s_i, index_uv |-> index_uv_i, u |-> u_i, v |-> v_i,
                      confidences |-> confidences]]
          /\ infer_k' = NextK(k, n_i)
    /\ infer_i' = infer_i + 1
    /\ UNCHANGED <<pc, infer_fn, detections, conf_names, block_rows>>
    /\ UNCHANGED notInference

\* an iteration of the loop of sabl_inference for a detection with instances
\* (lines 1507-1552).  block_u_width and its three companions are re-bound to
\* their n_i-fold repetition in every iteration (lines 1520-1523); gather
\* along dim 2 needs an input with at least as many rows as the index, and
\* the rows of u_i are the rows of the index.
SablInferenceStep ==
    /\ pc = "infer_loop"
    /\ infer_fn = "sabl_inference"
    /\ infer_i <= Len(detections)
    /\ detections[infer_i] # 0
    /\ LET n == NumRows(detections)
           n_i == detections[infer_i]
           k == infer_k
           s_i == PySlice(n, k, k + n_i)
           index_uv_i == PySlice(n, k, k + n_i)
           u_cls_i == PySlice(n, k, k + n_i)
           u_offset_i == PySlice(n, k, k + n_i)
           v_cls_i == PySlice(n, k, k + n_i)
           v_offset_i == PySlice(n, k, k + n_i)
           rows == block_rows * n_i
           index_u == u_cls_i
           index_v == v_cls_i
           gather_ok == /\ Len(index_u) <= Len(u_offset_i) /\ Len(index_u) <= rows
                        /\ Len(index_v) <= Len(v_offset_i) /\ Len(index_v) <= rows
           confidences == SliceConfidences(n, conf_names, k, k + n_i)
       IN /\ block_rows' = rows
          /\ IF gather_ok
             THEN /\ pred_densepose' =
                        [pred_densepose EXCEPT ![infer_i] =
                            [s |-> s_i, index_uv |-> index_uv_i, u |-> index_u,
                             v |-> index_v, confidences |-> confidences]]
                  /\ infer_k' = NextK(k, n_i)
                  /\ infer_i' = infer_i + 1
                  /\ pc' = pc
             ELSE /\ pc' = "infer_raised"
                  /\ UNCHANGED <<pred_densepose, infer_k, infer_i>>
    /\ UNCHANGED <<infer_fn, detections, conf_names>>
    /\ UNCHANGED notInference

\* the loop is exhausted and the function returns
InferenceReturn ==
    /\ pc = "infer_loop"
    /\ infer_i > Len(detections)
    /\ pc' = "infer_done"
    /\ UNCHANGED inferVars
    /\ UNCHANGED notInference

NextInference ==
    \/ DenseposeInferenceStep
    \/ SablInferenceStepEmpty
    \/ SablInferenceStep
    \/ InferenceReturn

SpecInference == InitInference /\ [][NextInference]_vars

\* k_i: the number of instances of the detections before detection i
RowsBefore(i) == SumSeq(SubSeq(detections, 1, i - 1))

\* rows [k_i, k_i + n_i) in increasing order
RowRange(i) == [j \in 1..detections[i] |-> RowsBefore(i) + j - 1]

\* C3: every detection handled so far holds a pred_densepose built from rows
\* [k_i, k_i + n_i) of every output tensor (and of every confidence that is
\* not None), k_i being the sum of n_j over the earlier detections; the
\* ranges of different detections are disjoint; a detection without
\* instances holds an empty pred_densepose; when the function has returned
\* every detection holds one.
ThmInferenceRowRanges ==
    pc \in {"infer_loop", "infer_done", "infer_raised"} =>
      /\ \A i \in 1..Len(detections) :
            i < infer_i =>
              /\ HasPredDensepose(pred_densepose[i])
              /\ pred_densepose[i].s = RowRange(i)
              /\ pred_densepose[i].index_uv = RowRange(i)
              /\ pred_densepose[i].u = RowRange(i)
              /\ pred_densepose[i].v = RowRange(i)
              /\ DOMAIN pred_densepose[i].confidences = conf_names
              /\ \A c \in conf_names : pred_densepose[i].confidences[c] = RowRange(i)
      /\ \A i, j \in 1..Len(detections) :
            (i < j /\ j < infer_i) =>
               /\ Range(pred_densepose[i].s) \cap Range(pred_densepose[j].s) = {}
               /\ \A a \in Range(pred_densepose[i].s), b \in Range(pred_densepose[j].s) : a < b
      /\ pc # "infer_raised"
      /\ pc = "infer_done" => infer_i = Len(detections) + 1

\* C3 witness: sabl_inference has returned for three detections, the middle
\* one without instances, the others with two and one
WitInferenceRowRanges ==
    /\ pc = "infer_done"
    /\ infer_fn = "sabl_inference"
    /\ detections = <<2, 0, 1>>
    /\ pred_densepose[2].u = <<>>
    /\ pred_densepose[3].u = <<2>>
    /\ conf_names # {}

(***************************************************************************)
(* Predictor confidences and the loss objects                              *)
(*                                                                         *)
(* A cfg is [segm_trained_by_masks, uv_enabled, uv_type, segm_enabled].    *)
(* A tensor of the computation graph is represented by its name; a loss    *)
(* term is [operands, zero]: the tensors it is computed from and whether   *)
(* it is a fake term of the form Tensor.sum() * 0.  The dictionary a loss  *)
(* object returns is a function from loss names to terms.                  *)
(*                                                                         *)
(* An Instances of proposals_with_gt is [has_dp, boxes]; a box is          *)
(* [dp_none, npoints]: whether its gt_densepose entry is None and the      *)
(* number of annotated points len(dp_gt.x).  With COARSE_SEGM_TRAINED_BY_  *)
(* MASKS on, every image is taken to carry gt_masks.                       *)
(***************************************************************************)
Tensor == "Tensor"

Cfgs == [segm_trained_by_masks : BOOLEAN,
         uv_enabled : BOOLEAN,
         uv_type : {"iid_iso", "indep_aniso"},
         segm_enabled : BOOLEAN]

GtBoxes(has_dp) ==
    IF has_dp
    THEN {[dp_none |-> TRUE, npoints |-> 0]}
         \cup {[dp_none |-> FALSE, npoints |-> k] : k \in 0..MaxPoints}
    ELSE {[dp_none |-> TRUE, npoints |-> 0]}

GtInstances ==
    UNION { { [has_dp |-> d, boxes |-> b] : b \in [1..n -> GtBoxes(d)] } :
            <<n, d>> \in (0..MaxBoxes) \X BOOLEAN }

GtBatches == UNION { [1..n -> GtInstances] : n \in 0..MaxGtImages }

ConfidenceNames == {"sigma_1", "sigma_2", "kappa_u", "kappa_v",
                    "fine_segm_confidence", "coarse_segm_confidence"}

ForwardConfidenceNoKappa(cfg) ==
    [c \in ConfidenceNames |->
        CASE c = "sigma_2" -> IF cfg.uv_enabled THEN Tensor ELSE None
          [] c \in {"fine_segm_confidence", "coarse_segm_confidence"} ->
                IF cfg.segm_enabled THEN Tensor ELSE None
          [] OTHER -> None]

\* DensePosePredictor._forward_confidence_estimation_layers (lines 654-704):
\* the first tuple it returns, Tensor or None for every entry
ForwardConfidence(cfg) ==
    [c \in ConfidenceNames |->
        CASE c = "sigma_1" -> None
          [] c = "sigma_2" ->
                IF cfg.uv_enabled /\ cfg.uv_type \in {"iid_iso", "indep_aniso"}
                THEN Tensor ELSE None
          [] c \in {"kappa_u", "kappa_v"} ->
                IF cfg.uv_enabled /\ cfg.uv_type = "indep_aniso" THEN Tensor ELSE None
          [] c \in {"fine_segm_confidence", "coarse_segm_confidence"} ->
                IF cfg.segm_enabled THEN Tensor ELSE None]

\* DensePoseKTNv2Predictor.forward / V3 return None as their third result
\* (lines 1020, 1258): no confidence is estimated
NoConfidences == [c \in ConfidenceNames |-> None]

\* _extract_single_tensors_from_matches_one_image (lines 1748-1805), its
\* result i_with_dp: bbox_global_offset + k for every box with points
RECURSIVE IWithDpOneImage(_, _, _)
IWithDpOneImage(inst, bbox_global_offset, k) ==
    IF k >= Len(inst.boxes) \/ ~inst.has_dp THEN <<>>
    ELSE (IF ~inst.boxes[k + 1].dp_none /\ inst.boxes[k + 1].npoints > 0
          THEN <<bbox_global_offset + k>> ELSE <<>>)
         \o IWithDpOneImage(inst, bbox_global_offset, k + 1)

\* _extract_single_tensors_from_matches (lines 1808-1884), its result
\* i_with_dp_all; n counts the proposals of the images seen so far
RECURSIVE IWithDpFrom(_, _, _)
IWithDpFrom(batch, i, n) ==
    IF i > Len(batch) THEN <<>>
    ELSE LET n_i == Len(batch[i].boxes)
         IN IF n_i = 0 THEN IWithDpFrom(batch, i + 1, n)
            ELSE IWithDpOneImage(batch[i], n, 0) \o IWithDpFrom(batch, i + 1, n + n_i)

ExtractIWithDp(batch) == IWithDpFrom(batch, 1, 0)

\* _extract_data_for_mask_loss_from_matches (lines 1931-1943): masks_gt is
\* filled by every image with proposals
MasksGtPresent(batch) == \E i \in 1..Len(batch) : Len(batch[i].boxes) > 0

FakeTerm(ops) == [operands |-> ops, zero |-> TRUE]
RealTerm(ops) == [operands |-> ops, zero |-> FALSE]

NoLosses == [n \in {} |-> FakeTerm({})]

\* dict.update
Update(f, g) == [n \in (DOMAIN f) \cup (DOMAIN g) |-> IF n \in DOMAIN g THEN g[n] ELSE f[n]]

One(name, term) == [n \in {name} |-> term]

Returned(losses, deref) == [status |-> "ok", losses |-> losses, deref |-> deref]
Raised(what) == [status |-> what, losses |-> NoLosses, deref |-> {}]

\* a result whose dereferenced confidences are not all tensors raises instead
Checked(r, conf) ==
    IF r.status = "ok" /\ \E c \in r.deref : conf[c] = None
    THEN Raised("NoneDereferenced") ELSE r

\* sequencing of two calls whose dictionaries are merged with update
Then(r1, r2) ==
    IF r1.status # "ok" THEN r1
    ELSE IF r2.status # "ok" THEN r2
    ELSE Returned(Update(r1.losses, r2.losses), r1.deref \cup r2.deref)

\* the confidence tensors the UV loss reads (lines 2119-2124, 2244-2287)
UVConfidences(cfg) ==
    IF cfg.uv_type = "iid_iso" THEN {"sigma_2"}
    ELSE IF cfg.uv_type = "indep_aniso" THEN {"sigma_2", "kappa_u", "kappa_v"}
    ELSE {}

\* DensePoseLosses.produce_fake_densepose_losses (lines 2100-2128)
DPFakeDenseposeLosses(cfg) ==
    LET i == One("loss_densepose_I", FakeTerm({"index_uv"}))
        s == IF ~cfg.segm_trained_by_masks
             THEN One("loss_densepose_S", FakeTerm({"s"})) ELSE NoLosses
        uv == IF cfg.uv_enabled
              THEN One("loss_densepose_UV", FakeTerm({"u", "v"} \cup UVConfidences(cfg)))
              ELSE Update(One("loss_densepose_U", FakeTerm({"u"})),
                          One("loss_densepose_V", FakeTerm({"v"})))
    IN Returned(Update(Update(i, s), uv),
                IF cfg.uv_enabled THEN UVConfidences(cfg) ELSE {})

\* DensePoseLosses.produce_densepose_losses past the early returns
\* (lines 2177-2352)
DPRealDenseposeLosses(cfg) ==
    LET deref == IF cfg.uv_enabled
                 THEN {"sigma_2"} \cup (IF cfg.uv_type = "indep_aniso"
                                        THEN {"kappa_u", "kappa_v"} ELSE {})
                 ELSE {}
        uv == IF cfg.uv_enabled
              THEN One("loss_densepose_UV", RealTerm({"u", "v"} \cup UVConfidences(cfg)))
              ELSE Update(One("loss_densepose_U", RealTerm({"u"})),
                          One("loss_densepose_V", RealTerm({"v"})))
        i == One("loss_densepose_I", RealTerm({"index_uv"}))
        s == IF ~cfg.segm_trained_by_masks
             THEN One("loss_densepose_S", RealTerm({"s"})) ELSE NoLosses
    IN Returned(Update(Update(uv, i), s), deref)

\* DensePoseLosses.produce_densepose_losses (lines 2130-2352); len is the
\* length of the tuple unpacked at line 2135
DPProduceDenseposeLosses(cfg, batch, len) ==
    IF len # 4 THEN Raised("ValueError")
    ELSE IF Len(batch) = 0 THEN DPFakeDenseposeLosses(cfg)
    ELSE IF Len(ExtractIWithDp(batch)) = 0 THEN DPFakeDenseposeLosses(cfg)
    ELSE DPRealDenseposeLosses(cfg)

\* produce_mask_losses and produce_fake_mask_losses of DensePoseLosses and of
\* SABLLosses (lines 2075-2098, 2415-2438): both unpack four outputs
ProduceMaskLosses(batch, len) ==
    IF len # 4 THEN Raised("ValueError")
    ELSE IF Len(batch) = 0
    THEN Returned(One("loss_densepose_S", FakeTerm({"s"})), {})
    ELSE IF ~MasksGtPresent(batch)
    THEN Returned(One("loss_densepose_S", FakeTerm({"s"})), {})
    ELSE Returned(One("loss_densepose_S", RealTerm({"s"})), {})

\* DensePoseLosses.__call__ (lines 2055-2073)
DensePoseLossesCall(cfg, batch, len) ==
    IF ~cfg.segm_trained_by_masks
    THEN DPProduceDenseposeLosses(cfg, batch, Min(len, 4))
    ELSE Then(DPProduceDenseposeLosses(cfg, batch, len), ProduceMaskLosses(batch, len))

\* SABLLosses.produce_fake_densepose_losses (lines 2440-2454): the two
\* offset terms are built from u_cls and v_cls
SABLFakeDenseposeLosses(cfg) ==
    LET i == One("loss_densepose_I", FakeTerm({"index_uv"}))
        s == IF ~cfg.segm_trained_by_masks
             THEN One("loss_densepose_S", FakeTerm({"s"})) ELSE NoLosses
        p == [n \in {"loss_densepose_U_cls", "loss_densepose_U_offset",
                     "loss_densepose_V_cls", "loss_densepose_V_offset"} |->
                 IF n \in {"loss_densepose_U_cls", "loss_densepose_U_offset"}
                 THEN FakeTerm({"u_cls"}) ELSE FakeTerm({"v_cls"})]
    IN Returned(Update(Update(i, s), p), {})

\* SABLLosses.produce_densepose_losses past the early returns
\* (lines 2490-2661)
SABLRealDenseposeLosses(cfg) ==
    LET p == [n \in {"loss_densepose_U_cls", "loss_densepose_U_offset",
                     "loss_densepose_V_cls", "loss_densepose_V_offset"} |->
                 CASE n = "loss_densepose_U_cls" -> RealTerm({"u_cls"})
                   [] n = "loss_densepose_U_offset" -> RealTerm({"u_offset"})
                   [] n = "loss_densepose_V_cls" -> RealTerm({"v_cls"})
                   [] n = "loss_densepose_V_offset" -> RealTerm({"v_offset"})]
        i == One("loss_densepose_I", RealTerm({"index_uv"}))
        s == IF ~cfg.segm_trained_by_masks
             THEN One("loss_densepose_S", RealTerm({"s"})) ELSE NoLosses
    IN Returned(Update(Update(p, i), s), {})

\* SABLLosses.produce_densepose_losses (lines 2456-2661); len is the length
\* of the tuple unpacked at line 2461
SABLProduceDenseposeLosses(cfg, batch, len) ==
    IF len # 6 THEN Raised("ValueError")
    ELSE IF Len(batch) = 0 THEN SABLFakeDenseposeLosses(cfg)
    ELSE IF Len(ExtractIWithDp(batch)) = 0 THEN SABLFakeDenseposeLosses(cfg)
    ELSE SABLRealDenseposeLosses(cfg)

\* SABLLosses.__call__ (lines 2395-2413)
SABLLossesCall(cfg, batch, len) ==
    IF ~cfg.segm_trained_by_masks
    THEN SABLProduceDenseposeLosses(cfg, batch, Min(len, 6))
    ELSE Then(SABLProduceDenseposeLosses(cfg, batch, len), ProduceMaskLosses(batch, len))

\* KTNLosses.__call__ (lines 2841-2970); s and m are tensors, their size is
\* read at lines 2849-2852
KTNLossesCall(cfg, batch, len) ==
    IF len # 5 THEN Raised("ValueError")
    ELSE LET names == {"loss_densepose_U", "loss_densepose_V", "loss_densepose_I",
                       "loss_densepose_S", "loss_densepose_M"}
             ops(n) == CASE n = "loss_densepose_U" -> {"u"}
                         [] n = "loss_densepose_V" -> {"v"}
                         [] n = "loss_densepose_I" -> {"index_uv"}
                         [] n = "loss_densepose_S" -> {"s"}
                         [] n = "loss_densepose_M" -> {"m"}
         IN IF Len(ExtractIWithDp(batch)) = 0
            THEN Returned([n \in names |-> FakeTerm(ops(n))], {})
            ELSE Returned([n \in names |-> RealTerm(ops(n))], {})

LossKinds == {"DensePoseLosses", "SABLLosses", "KTNLosses"}

\* lengths of the first tuple the predictors return: DensePosePredictor 4,
\* DensePoseKptRelationPredictor 5, SABLKptRelationPredictor 7 (or its first
\* six), the KTN predictors' first five
OutputLens(kind) ==
    CASE kind = "DensePoseLosses" -> {4, 5}
      [] kind = "SABLLosses" -> {6, 7}
      [] kind = "KTNLosses" -> {5}

LossesCall(kind, cfg, batch, len) ==
    CASE kind = "DensePoseLosses" -> DensePoseLossesCall(cfg, batch, len)
      [] kind = "SABLLosses" -> SABLLossesCall(cfg, batch, len)
      [] kind = "KTNLosses" -> KTNLossesCall(cfg, batch, len)

InitLosses ==
    /\ pc = "forward"
    /\ loss_cfg \in Cfgs
    /\ loss_kind \in LossKinds
    /\ outputs_len \in OutputLens(loss_kind)
    /\ proposals_with_gt \in GtBatches
    /\ densepose_confidences = None
    /\ loss_result = None
    /\ OthersIdle("losses")

\* the predictors that estimate confidences (lines 598-607, 770-779, 876-885)
ForwardConfidenceEstimationLayers ==
    /\ pc = "forward"
    /\ loss_kind \in {"DensePoseLosses", "SABLLosses"}
    /\ densepose_confidences' = ForwardConfidence(loss_cfg)
    /\ pc' = "loss_call"
    /\ UNCHANGED <<loss_cfg, loss_kind, outputs_len, proposals_with_gt, loss_result>>
    /\ UNCHANGED notLosses

\* the KTN predictors (lines 1020, 1258)
KTNForward ==
    /\ pc = "forward"
    /\ loss_kind = "KTNLosses"
    /\ densepose_confidences' = NoConfidences
    /\ pc' = "loss_call"
    /\ UNCHANGED <<loss_cfg, loss_kind, outputs_len, proposals_with_gt, loss_result>>
    /\ UNCHANGED notLosses

CallDensePoseLosses ==
    /\ pc = "loss_call"
    /\ loss_kind = "DensePoseLosses"
    /\ loss_result' = Checked(DensePoseLossesCall(loss_cfg, proposals_with_gt, outputs_len),
                              densepose_confidences)
    /\ pc' = "loss_done"
    /\ UNCHANGED <<loss_cfg, loss_kind, outputs_len, proposals_with_gt, densepose_confidences>>
    /\ UNCHANGED notLosses

CallSABLLosses ==
    /\ pc = "loss_call"
    /\ loss_kind = "SABLLosses"
    /\ loss_result' = Checked(SABLLossesCall(loss_cfg, proposals_with_gt, outputs_len),
                              densepose_confidences)
    /\ pc' = "loss_done"
    /\ UNCHANGED <<loss_cfg, loss_kind, outputs_len, proposals_with_gt, densepose_confidences>>
    /\ UNCHANGED notLosses

CallKTNLosses ==
    /\ pc = "loss_call"
    /\ loss_kind = "KTNLosses"
    /\ loss_result' = KTNLossesCall(loss_cfg, proposals_with_gt, outputs_len)
    /\ pc' = "loss_done"
    /\ UNCHANGED <<loss_cfg, loss_kind, outputs_len, proposals_with_gt, densepose_confidences>>
    /\ UNCHANGED notLosses

NextLosses ==
    \/ ForwardConfidenceEstimationLayers
    \/ KTNForward
    \/ CallDensePoseLosses
    \/ CallSABLLosses
    \/ CallKTNLosses

SpecLosses == InitLosses /\ [][NextLosses]_vars

HasData(batch) == Len(ExtractIWithDp(batch)) > 0

LossNames(r) == DOMAIN r.losses

Operands(r) == UNION { r.losses[n].operands : n \in DOMAIN r.losses }

WithDataResults ==
    { LossesCall(loss_kind, loss_cfg, b, outputs_len) : b \in {x \in GtBatches : HasData(x)} }

\* C4: whatever the configuration, a loss object called on a batch without
\* usable DensePose ground truth returns the loss names it returns on a
\* batch with ground truth, and every loss it returns is a zero term
CexLossNamesIndependentOfData ==
    (pc = "loss_done" /\ ~HasData(proposals_with_gt)) =>
        /\ loss_result.status = "ok"
        /\ \A r \in WithDataResults :
               r.status = "ok" /\ LossNames(r) = LossNames(loss_result)
        /\ \A n \in LossNames(loss_result) : loss_result.losses[n].zero

\* C5: on a batch without DensePose ground truth, every tensor the real
\* losses of the same configuration read is an operand of a fake loss term
CexFakeLossesKeepGraph ==
    (pc = "loss_done" /\ ~HasData(proposals_with_gt) /\ loss_result.status = "ok") =>
        \A r \in WithDataResults :
            r.status = "ok" => Operands(r) \subseteq Operands(loss_result)

ConfidencesFollowCfg(conf, cfg) ==
    /\ conf["sigma_1"] = None
    /\ ~cfg.uv_enabled =>
          conf["sigma_2"] = None /\ conf["kappa_u"] = None /\ conf["kappa_v"] = None
    /\ (cfg.uv_enabled /\ cfg.uv_type = "iid_iso") =>
          conf["sigma_2"] = Tensor /\ conf["kappa_u"] = None /\ conf["kappa_v"] = None
    /\ (cfg.uv_enabled /\ cfg.uv_type = "indep_aniso") =>
          conf["sigma_2"] = Tensor /\ conf["kappa_u"] = Tensor /\ conf["kappa_v"] = Tensor
    /\ (conf["fine_segm_confidence"] = Tensor) <=> cfg.segm_enabled
    /\ (conf["coarse_segm_confidence"] = Tensor) <=> cfg.segm_enabled

\* C7: the confidences _forward_confidence_estimation_layers returns follow
\* the configuration (sigma_1 never, sigma_2 with UV confidence, the kappas
\* with indep_aniso only, the segmentation confidences iff enabled), and
\* DensePoseLosses, on its fake and its real path, dereferences only
\* confidences that are tensors
ThmConfidencesFollowCfg ==
    /\ (pc \in {"loss_call", "loss_done"} /\ loss_kind \in {"DensePoseLosses", "SABLLosses"}) =>
           ConfidencesFollowCfg(densepose_confidences, loss_cfg)
    /\ (pc = "loss_done" /\ loss_kind = "DensePoseLosses") =>
           /\ loss_result.status # "NoneDereferenced"
           /\ \A c \in loss_result.deref : densepose_confidences[c] = Tensor

WitConfidencesFollowCfg ==
    /\ pc = "loss_done"
    /\ loss_kind = "DensePoseLosses"
    /\ loss_cfg.uv_enabled
    /\ loss_cfg.uv_type = "indep_aniso"
    /\ HasData(proposals_with_gt)
    /\ loss_result.status = "ok"
    /\ loss_result.deref = {"sigma_2", "kappa_u", "kappa_v"}
    /\ densepose_confidences["kappa_u"] = Tensor
    /\ densepose_confidences["sigma_1"] = None

(***************************************************************************)
(* _linear_interpolation_utilities and _grid_sampling_utilities            *)
(*                                                                         *)
(* Coordinates and sizes are integers and v_norm is an integer, so every   *)
(* real number of the computation is an exact rational: v - v0_dst is      *)
(* A / 256 and v_grid is (A * size_z) / (256 * size_dst).  A float is      *)
(* [kind, num, den] with kind "fin" (the rational num / den, den > 0),     *)
(* "posinf", "neginf" or "nan".                                            *)
(***************************************************************************)
MaxCoord == 1       \* box origins are 0..MaxCoord
MaxSize == 2        \* box sizes are 0..MaxSize (source sizes 1..MaxSize)
MaxZ == 2           \* zh and zw are 1..MaxZ

\* normalized point offsets: both ends of the range, an interior value, and
\* the value 256 that reaches the far edge of the source box
NormValues == {0, 100, 255, 256}

Fin(n, d) == [kind |-> "fin", num |-> n, den |-> d]
NonFin(k) == [kind |-> k, num |-> 0, den |-> 1]

\* (v - v0_dst) * 256 for v = v0_src + v_norm * size_src / 256.0 (line 1590)
Offset256(v_norm, v0_src, size_src, v0_dst) ==
    (v0_src - v0_dst) * 256 + v_norm * size_src

\* line 1591
JValid(v_norm, v0_src, size_src, v0_dst, size_dst) ==
    LET a == Offset256(v_norm, v0_src, size_src, v0_dst)
    IN a >= 0 /\ a < 256 * size_dst

\* line 1592: a division by size_dst = 0 gives an infinity or, for 0 / 0, NaN
VGrid(v_norm, v0_src, size_src, v0_dst, size_dst, size_z) ==
    LET a == Offset256(v_norm, v0_src, size_src, v0_dst)
    IN IF size_dst # 0 THEN Fin(a * size_z, 256 * size_dst)
       ELSE IF a > 0 THEN NonFin("posinf")
       ELSE IF a < 0 THEN NonFin("neginf")
       ELSE NonFin("nan")

\* Tensor.long() of a value that is not finite is not defined: the builds
\* give the smallest integer, zero or the largest integer
LongCasts == {-(2^30), 0, 2^30}

\* floor().long() (line 1593)
FloorLong(g, cast) == IF g.kind = "fin" THEN g.num \div g.den ELSE cast

ClampMax(v, lo, hi) == IF v > hi THEN hi ELSE v

\* Tensor.clamp(min, max) (line 1593)
Clamp(v, lo, hi) == IF v < lo THEN lo ELSE IF v > hi THEN hi ELSE v

HiUnclamped(v_lo, size_z) == v_lo + 1

\* line 1594
Hi(v_lo, size_z) == Min(v_lo + 1, size_z - 1)

\* torch.min(v_hi.float(), v_grid) (line 1595); NaN propagates
MinFloat(v_hi, g) ==
    CASE g.kind = "fin" -> IF v_hi * g.den < g.num THEN Fin(v_hi * g.den, g.den) ELSE g
      [] g.kind = "posinf" -> Fin(v_hi, 1)
      [] OTHER -> g

\* v_grid - v_lo.float() (line 1596)
SubInt(g, v_lo) == IF g.kind = "fin" THEN Fin(g.num - v_lo * g.den, g.den) ELSE g

\* _linear_interpolation_utilities (lines 1590-1597)
LinearInterpolationUtilities(v_norm, v0_src, size_src, v0_dst, size_dst, size_z, cast) ==
    LET v_grid == VGrid(v_norm, v0_src, size_src, v0_dst, size_dst, size_z)
        v_lo == Clamp(FloorLong(v_grid, cast), 0, size_z - 1)
        v_hi == Hi(v_lo, size_z)
    IN [v_lo |-> v_lo,
        v_hi |-> v_hi,
        v_w |-> SubInt(MinFloat(v_hi, v_grid), v_lo),
        j_valid |-> JValid(v_norm, v0_src, size_src, v0_dst, size_dst)]

\* 1.0 - w
OneMinus(w) ==
    CASE w.kind = "fin" -> Fin(w.den - w.num, w.den)
      [] w.kind = "posinf" -> NonFin("neginf")
      [] w.kind = "neginf" -> NonFin("posinf")
      [] OTHER -> w

Sign(n) == IF n > 0 THEN 1 ELSE IF n < 0 THEN -1 ELSE 0

FloatSign(w) ==
    CASE w.kind = "fin" -> Sign(w.num)
      [] w.kind = "posinf" -> 1
      [] w.kind = "neginf" -> -1
      [] OTHER -> 0

\* a * b of two floats; infinity times zero is NaN
Times(a, b) ==
    IF a.kind = "fin" /\ b.kind = "fin" THEN Fin(a.num * b.num, a.den * b.den)
    ELSE IF a.kind = "nan" \/ b.kind = "nan" THEN NonFin("nan")
    ELSE IF FloatSign(a) * FloatSign(b) = 0 THEN NonFin("nan")
    ELSE IF FloatSign(a) * FloatSign(b) > 0 THEN NonFin("posinf")
    ELSE NonFin("neginf")

Boxes == [x0 : 0..MaxCoord, y0 : 0..MaxCoord, w : 0..MaxSize, h : 0..MaxSize]

GtBoxesXYWH == {b \in Boxes : b.w >= 1 /\ b.h >= 1}

InitGrid ==
    /\ pc = "grid_x"
    /\ grid_args \in [x_norm : NormValues, y_norm : NormValues,
                      bbox_xywh_gt : GtBoxesXYWH, bbox_xywh_est : Boxes,
                      zh : 1..MaxZ, zw : 1..MaxZ]
    /\ grid_x = None
    /\ grid_y = None
    /\ grid_ret = None
    /\ OthersIdle("grid")

\* lines 1647-1651
GridInterpolateX ==
    /\ pc = "grid_x"
    /\ \E cast \in LongCasts :
          grid_x' = LinearInterpolationUtilities(
                        grid_args.x_norm, grid_args.bbox_xywh_gt.x0, grid_args.bbox_xywh_gt.w,
                        grid_args.bbox_xywh_est.x0, grid_args.bbox_xywh_est.w,
                        grid_args.zw, cast)
    /\ pc' = "grid_y"
    /\ UNCHANGED <<grid_args, grid_y, grid_ret>>
    /\ UNCHANGED notGrid

\* lines 1652-1654
GridInterpolateY ==
    /\ pc = "grid_y"
    /\ \E cast \in LongCasts :
          grid_y' = LinearInterpolationUtilities(
                        grid_args.y_norm, grid_args.bbox_xywh_gt.y0, grid_args.bbox_xywh_gt.h,
                        grid_args.bbox_xywh_est.y0, grid_args.bbox_xywh_est.h,
                        grid_args.zh, cast)
    /\ pc' = "grid_w"
    /\ UNCHANGED <<grid_args, grid_x, grid_ret>>
    /\ UNCHANGED notGrid

\* lines 1655-1662
GridReturn ==
    /\ pc = "grid_w"
    /\ grid_ret' = [j_valid |-> grid_x.j_valid /\ grid_y.j_valid,
                    y_lo |-> grid_y.v_lo, y_hi |-> grid_y.v_hi,
                    x_lo |-> grid_x.v_lo, x_hi |-> grid_x.v_hi,
                    w_ylo_xlo |-> Times(OneMinus(grid_x.v_w), OneMinus(grid_y.v_w)),
                    w_ylo_xhi |-> Times(grid_x.v_w, OneMinus(grid_y.v_w)),
                    w_yhi_xlo |-> Times(OneMinus(grid_x.v_w), grid_y.v_w),
                    w_yhi_xhi |-> Times(grid_x.v_w, grid_y.v_w)]
    /\ pc' = "grid_done"
    /\ UNCHANGED <<grid_args, grid_x, grid_y>>
    /\ UNCHANGED notGrid

NextGrid ==
    \/ GridInterpolateX
    \/ GridInterpolateY
    \/ GridReturn

SpecGrid == InitGrid /\ [][NextGrid]_vars

InUnitInterval(w) == w.kind = "fin" /\ 0 <= w.num /\ w.num <= w.den

NonNegative(w) == w.kind = "fin" /\ w.num >= 0

\* the four weights share the denominator x_w.den * y_w.den
SumToOne(r) ==
    /\ \A f \in {"w_ylo_xlo", "w_ylo_xhi", "w_yhi_xlo", "w_yhi_xhi"} :
           r[f].kind = "fin" /\ r[f].den = r.w_ylo_xlo.den
    /\ r.w_ylo_xlo.num + r.w_ylo_xhi.num + r.w_yhi_xlo.num + r.w_yhi_xhi.num
           = r.w_ylo_xlo.den

MaxRaw == 3         \* finite raw outputs are -MaxRaw..MaxRaw (and two far values)

\* the default 0.01 (lines 54, 66), zero, a large and a negative setting
Epsilons == {-10, 0, 10, 500}

\* a raw output far below zero, where exp underflows, and one above the
\* threshold from which softplus is the identity
FarRaws == {-104, 21}

RawOutputs ==
    { Fin(x * 1000, 1000) : x \in (-MaxRaw..MaxRaw) \cup FarRaws }
    \cup { NonFin("posinf"), NonFin("neginf"), NonFin("nan") }

\* log(1 + exp(x)) in per-mille for the integers x of -7..7
SoftplusTable ==
    [x \in -7..7 |->
        CASE x = -7 -> 1 [] x = -6 -> 2 [] x = -5 -> 7 [] x = -4 -> 18
          [] x = -3 -> 49 [] x = -2 -> 127 [] x = -1 -> 313 [] x = 0 -> 693
          [] x = 1 -> 1313 [] x = 2 -> 2127 [] x = 3 -> 3049 [] x = 4 -> 4018
          [] x = 5 -> 5007 [] x = 6 -> 6002 [] x = 7 -> 7001]

SoftplusIdentity(r) == r

\* F.softplus (lines 680, 688, 1975, 2015) of a raw output
Softplus(r) ==
    CASE r.kind = "posinf" -> r
      [] r.kind = "neginf" -> Fin(0, 1000)
      [] r.kind = "nan" -> r
      [] OTHER ->
            LET x == r.num \div 1000
            IN IF x > 20 THEN r
               ELSE IF x < -7 THEN Fin(0, 1000)
               ELSE Fin(SoftplusTable[x], 1000)

\* value + epsilon
PlusEpsilon(v, eps) == IF v.kind = "fin" THEN Fin(v.num + eps, v.den) ELSE v

\* value < epsilon as the floats compare: nothing is below NaN's place
Below(v, eps) ==
    CASE v.kind = "fin" -> v.num < eps
      [] v.kind = "neginf" -> TRUE
      [] OTHER -> FALSE

InitConfidence ==
    /\ pc = "conf_raw"
    /\ conf_cfg \in [uv_epsilon : Epsilons, segm_epsilon : Epsilons]
    /\ conf_raw \in RawOutputs
    /\ conf_out = None
    /\ OthersIdle("confidence")

\* lines 677-681
FineSegmConfidence ==
    /\ pc = "conf_raw"
    /\ conf_out' = [site |-> "fine_segm_confidence",
                    value |-> PlusEpsilon(Softplus(conf_raw), conf_cfg.segm_epsilon)]
    /\ pc' = "conf_done"
    /\ UNCHANGED <<conf_cfg, conf_raw>>
    /\ UNCHANGED notConfidence

\* lines 685-689
CoarseSegmConfidence ==
    /\ pc = "conf_raw"
    /\ conf_out' = [site |-> "coarse_segm_confidence",
                    value |-> PlusEpsilon(Softplus(conf_raw), conf_cfg.segm_epsilon)]
    /\ pc' = "conf_done"
    /\ UNCHANGED <<conf_cfg, conf_raw>>
    /\ UNCHANGED notConfidence

\* IIDIsotropicGaussianUVLoss.forward, sigma2 (line 1975); sigma_lower_bound
\* is uv_confidence.epsilon (lines 2047-2049)
IIDIsotropicSigma2 ==
    /\ pc = "conf_raw"
    /\ conf_out' = [site |-> "iid_iso_sigma2",
                    value |-> PlusEpsilon(Softplus(conf_raw), conf_cfg.uv_epsilon)]
    /\ pc' = "conf_done"
    /\ UNCHANGED <<conf_cfg, conf_raw>>
    /\ UNCHANGED notConfidence

\* IndepAnisotropicGaussianUVLoss.forward, sigma2 (line 2015); sigma_lower_bound
\* is uv_confidence.epsilon (lines 2051-2053)
IndepAnisotropicSigma2 ==
    /\ pc = "conf_raw"
    /\ conf_out' = [site |-> "indep_aniso_sigma2",
                    value |-> PlusEpsilon(Softplus(conf_raw), conf_cfg.uv_epsilon)]
    /\ pc' = "conf_done"
    /\ UNCHANGED <<conf_cfg, conf_raw>>
    /\ UNCHANGED notConfidence

NextConfidence ==
    \/ FineSegmConfidence
    \/ CoarseSegmConfidence
    \/ IIDIsotropicSigma2
    \/ IndepAnisotropicSigma2

SpecConfidence == InitConfidence /\ [][NextConfidence]_vars

ConfiguredEpsilon(site) ==
    IF site \in {"fine_segm_confidence", "coarse_segm_confidence"}
    THEN conf_cfg.segm_epsilon ELSE conf_cfg.uv_epsilon

\* C8: the variance of both UV confidence losses and the fine and coarse
\* segmentation confidences are never below the configured epsilon,
\* whatever the raw network output
ThmEpsilonLowerBound ==
    pc = "conf_done" => ~Below(conf_out.value, ConfiguredEpsilon(conf_out.site))

WitEpsilonLowerBound ==
    /\ pc = "conf_done"
    /\ conf_out.site = "indep_aniso_sigma2"
    /\ conf_raw = Fin(-3000, 1000)
    /\ conf_cfg.uv_epsilon = 10
    /\ conf_cfg.segm_epsilon = 500
    /\ conf_out.value = Fin(59, 1000)

(***************************************************************************)
(* The KTN predictors and cascade_generate_surface_weights                 *)
(*                                                                         *)
(* A tensor is its shape, a sequence of sizes; an operation on shapes that *)
(* torch rejects gives ShapeError.                                         *)
(***************************************************************************)
MaxDimIn == 2       \* input_channels is 1..MaxDimIn
MaxKpt == 2         \* keypoint classes K are 1..MaxKpt
MaxPatches == 2     \* NUM_PATCHES is 1..MaxPatches
MaxFcDim == 2       \* ROI_BOX_HEAD.FC_DIM is 1..MaxFcDim

\* DECONV_KERNEL
KernelSizes == {2, 4}

NUM_ANN_INDICES == 15
BoxParams == 6

ShapeError == <<-1>>

IsShape(t) == t # ShapeError

RECURSIVE Numel(_)
Numel(t) == IF t = <<>> THEN 1 ELSE t[1] * Numel(Tail(t))

\* torch.matmul of two matrices
MatMul(a, b) ==
    IF IsShape(a) /\ IsShape(b) /\ Len(a) = 2 /\ Len(b) = 2 /\ a[2] = b[1]
    THEN <<a[1], b[2]>> ELSE ShapeError

\* torch.cat(ts, dim=1) of matrices
RECURSIVE Cat1(_)
Cat1(ts) ==
    IF Len(ts) = 1 THEN ts[1]
    ELSE LET rest == Cat1(Tail(ts))
         IN IF IsShape(ts[1]) /\ IsShape(rest) /\ Len(ts[1]) = 2 /\ ts[1][1] = rest[1]
            THEN <<ts[1][1], ts[1][2] + rest[2]>> ELSE ShapeError

\* Tensor.reshape
Reshape(t, shape) ==
    IF IsShape(t) /\ Numel(t) = Numel(shape) THEN shape ELSE ShapeError

\* Tensor.permute((1, 0, 2, 3))
Permute1023(t) ==
    IF IsShape(t) /\ Len(t) = 4 THEN <<t[2], t[1], t[3], t[4]>> ELSE ShapeError

\* nn.Sequential(Linear(in1, out1), LeakyReLU, Linear(out1, out2)) applied to
\* a matrix; lin is <<in1, out1, out2>>
Transformer(lin, t) ==
    IF IsShape(t) /\ Len(t) = 2 /\ t[2] = lin[1] THEN <<t[1], lin[3]>> ELSE ShapeError

KTNClasses == {"DensePoseKTNv2Predictor", "DensePoseKTNv2PredictorV2",
               "DensePoseKTNv2PredictorV3"}

\* the classes an instance of cls is an instance of (lines 902, 1023, 1157)
Mro(cls) ==
    CASE cls = "DensePoseKTNv2Predictor" -> {"DensePoseKTNv2Predictor", "nn.Module"}
      [] cls = "DensePoseKTNv2PredictorV2" ->
            {"DensePoseKTNv2PredictorV2", "DensePosePredictor", "nn.Module"}
      [] cls = "DensePoseKTNv2PredictorV3" -> {"DensePoseKTNv2PredictorV3", "nn.Module"}

\* the class named in the super(...) call of __init__ (lines 905, 1026, 1160)
SuperArg(cls) ==
    CASE cls = "DensePoseKTNv2Predictor" -> "DensePoseKTNv2Predictor"
      [] cls = "DensePoseKTNv2PredictorV2" -> "DensePoseKTNv2Predictor"
      [] cls = "DensePoseKTNv2PredictorV3" -> "DensePoseKTNv2PredictorV3"

\* in_features of the first Linear of the transformer that
\* cascade_generate_surface_weights applies (lines 947, 1076, 1204)
FirstLinearIn(cls, index_weight_size, bbox_weight_size) ==
    IF cls = "DensePoseKTNv2Predictor"
    THEN bbox_weight_size + index_weight_size
    ELSE bbox_weight_size + index_weight_size + index_weight_size

\* __init__ of the three classes (lines 904-951, 1025-1082, 1159-1210):
\* the shapes of the parameters that cascade_generate_surface_weights reads
Construct(cfg) ==
    IF SuperArg(cfg.cls) \notin Mro(cfg.cls) THEN [raised |-> "TypeError"]
    ELSE LET dim_in == cfg.input_channels
             dim_out_patches == cfg.NUM_PATCHES + 1
             kernel_size == cfg.DECONV_KERNEL
             index_weight_size == dim_in * kernel_size * kernel_size
             rel_matrix == <<cfg.rel_matrix[2], cfg.rel_matrix[1]>>
         IN [raised |-> None,
             cls |-> cfg.cls,
             body_kpt_weight |-> cfg.kpt_weight,
             kpt_surface_transfer_matrix |-> rel_matrix,
             bbox_surface_transfer_matrix |-> <<dim_out_patches, BoxParams>>,
             part_surface_transfer_matrix |->
                 IF cfg.cls = "DensePoseKTNv2Predictor" THEN None
                 ELSE <<dim_out_patches, NUM_ANN_INDICES>>,
             ann_index_lowres_weight |->
                 IF cfg.cls = "DensePoseKTNv2Predictor" THEN None
                 ELSE <<dim_in, NUM_ANN_INDICES, kernel_size, kernel_size>>,
             transformer |-> <<FirstLinearIn(cfg.cls, index_weight_size, cfg.FC_DIM),
                               index_weight_size, index_weight_size>>]

\* DensePoseKTNv2Predictor.cascade_generate_surface_weights (lines 976-986)
CascadeKTNv2(m, bbox_weight) ==
    LET kw == m.body_kpt_weight
        n_in == kw[1]
        n_out == kw[2]
        h == kw[3]
        w == kw[4]
        kpt_weight == Reshape(Permute1023(kw), <<n_out, n_in * h * w>>)
        from_kpt == MatMul(m.kpt_surface_transfer_matrix, kpt_weight)
        from_box == MatMul(m.bbox_surface_transfer_matrix, bbox_weight)
        syn == Cat1(<<from_kpt, from_box>>)
        out == Transformer(m.transformer, syn)
    IN [syn_body_surface_params |-> syn,
        body_surface_weight |->
            Permute1023(Reshape(out, <<m.bbox_surface_transfer_matrix[1], n_in, h, w>>))]

\* cascade_generate_surface_weights of DensePoseKTNv2PredictorV2 (lines
\* 1103-1118) and of DensePoseKTNv2PredictorV3 (lines 1212-1230); rows is
\* the size(0) used in the final reshape
CascadeWithPart(m, bbox_weight, rows) ==
    LET kw == m.body_kpt_weight
        pw == m.ann_index_lowres_weight
        kpt_weight == Reshape(Permute1023(kw), <<kw[2], kw[1] * kw[3] * kw[4]>>)
        n_in == pw[1]
        n_out == pw[2]
        h == pw[3]
        w == pw[4]
        part_weight == Reshape(Permute1023(pw), <<n_out, n_in * h * w>>)
        from_kpt == MatMul(m.kpt_surface_transfer_matrix, kpt_weight)
        from_box == MatMul(m.bbox_surface_transfer_matrix, bbox_weight)
        from_part == MatMul(m.part_surface_transfer_matrix, part_weight)
        syn == Cat1(<<from_kpt, from_box, from_part>>)
        out == Transformer(m.transformer, syn)
    IN [syn_body_surface_params |-> syn,
        body_surface_weight |-> Permute1023(Reshape(out, <<rows, n_in, h, w>>))]

CascadeGenerateSurfaceWeights(m, bbox_weight) ==
    CASE m.cls = "DensePoseKTNv2Predictor" -> CascadeKTNv2(m, bbox_weight)
      [] m.cls = "DensePoseKTNv2PredictorV2" ->
            CascadeWithPart(m, bbox_weight, m.bbox_surface_transfer_matrix[1])
      [] m.cls = "DensePoseKTNv2PredictorV3" ->
            CascadeWithPart(m, bbox_weight, m.kpt_surface_transfer_matrix[1])

\* the pickled keypoint weight has shape (dim_in, K, k, k) and the pickled
\* relation matrix has shape (K, P)
InitKTN ==
    /\ pc = "ktn_init"
    /\ \E cls \in KTNClasses, dim_in \in 1..MaxDimIn, K \in 1..MaxKpt,
          np \in 1..MaxPatches, k \in KernelSizes, fc \in 1..MaxFcDim :
          ktn_cfg = [cls |-> cls, input_channels |-> dim_in, NUM_PATCHES |-> np,
                     DECONV_KERNEL |-> k, FC_DIM |-> fc,
                     kpt_weight |-> <<dim_in, K, k, k>>,
                     rel_matrix |-> <<K, np + 1>>]
    /\ ktn_predictor = None
    /\ ktn_ret = None
    /\ OthersIdle("ktn")

\* building the predictor: __init__ returns or raises
KTNBuild ==
    /\ pc = "ktn_init"
    /\ ktn_predictor' = Construct(ktn_cfg)
    /\ pc' = IF Construct(ktn_cfg).raised = None THEN "ktn_built" ELSE "ktn_raised"
    /\ UNCHANGED <<ktn_cfg, ktn_ret>>
    /\ UNCHANGED notKTN

\* forward calls cascade_generate_surface_weights(bbox_params) with the
\* (6, FC_DIM) box parameters (lines 1001, 1133, 1240)
KTNCascade ==
    /\ pc = "ktn_built"
    /\ ktn_ret' = CascadeGenerateSurfaceWeights(ktn_predictor, <<BoxParams, ktn_cfg.FC_DIM>>)
    /\ pc' = "ktn_done"
    /\ UNCHANGED <<ktn_cfg, ktn_predictor>>
    /\ UNCHANGED notKTN

NextKTN ==
    \/ KTNBuild
    \/ KTNCascade

SpecKTN == InitKTN /\ [][NextKTN]_vars

ExpectedSurfaceWeights ==
    /\ ktn_ret.syn_body_surface_params =
           <<ktn_cfg.NUM_PATCHES + 1, ktn_predictor.transformer[1]>>
    /\ ktn_ret.body_surface_weight =
           <<ktn_cfg.input_channels, ktn_cfg.NUM_PATCHES + 1,
             ktn_cfg.DECONV_KERNEL, ktn_cfg.DECONV_KERNEL>>

\* C9: for each of the three predictor classes, the concatenated per-patch
\* parameter row is as wide as the input of the transformer's first linear
\* layer and the synthesized kernel has shape (dim_in, P, k, k)
CexSurfaceWeightShapes ==
    /\ pc # "ktn_raised"
    /\ pc = "ktn_done" => ExpectedSurfaceWeights

(***************************************************************************)
(* AEQL: the weights eql_w of the re-weighted part classification loss     *)
(*                                                                         *)
(* One point j is modelled: its row of index_uv_est (integer logits), its  *)
(* ground-truth class and its draw of E.  exp is tabulated in per-mille.   *)
(***************************************************************************)
NumClasses == 25
TopK == 18

\* freq of threshold_func (lines 2362, 2677)
TailClasses == {7, 8, 11, 12}

Classes == 0..(NumClasses - 1)

LogitLevels == {0, 1, 2}

\* the classes are given their logit in three groups: the tail classes, the
\* classes below 7 and all others
GroupOf(c) == IF c \in TailClasses THEN "tail" ELSE IF c < 7 THEN "low" ELSE "rest"

\* exp(-h / 2) in per-mille
ExpNegHalves ==
    [h \in -4..4 |->
        CASE h = -4 -> 7389 [] h = -3 -> 4482 [] h = -2 -> 2718 [] h = -1 -> 1649
          [] h = 0 -> 1000
          [] h = 1 -> 607 [] h = 2 -> 368 [] h = 3 -> 223 [] h = 4 -> 135]

\* torch.max(index_uv_est, dim=1) (lines 2330, 2639)
MaxLogit(est) == CHOOSE m \in Range([i \in 1..NumClasses |-> est[i - 1]]) :
                    \A c \in Classes : est[c] <= m

\* prob.topk(18, dim=1, largest=False, sorted=True) (lines 2335, 2644): the
\* classes in increasing probability; softmax is increasing in the logit, and
\* equal logits are ordered by lowest index first or by highest index first
TopkKey(est, order, c) ==
    est[c] * NumClasses + (IF order = "low_first" THEN c ELSE NumClasses - 1 - c)

TopIndex(est, order) ==
    [i \in 1..TopK |->
        CHOOSE c \in Classes :
            Cardinality({d \in Classes : TopkKey(est, order, d) < TopkKey(est, order, c)})
                = i - 1]

\* torch.exp(-(index_uv_est - mi) / (M - mi)) for one class (lines 2337, 2646)
Correlation(x, mi, M) ==
    IF M - mi = 0
    THEN (IF x - mi = 0 THEN NonFin("nan")
          ELSE IF x - mi > 0 THEN Fin(0, 1000)
          ELSE NonFin("posinf"))
    ELSE Fin(ExpNegHalves[((x - mi) * 2) \div (M - mi)], 1000)

\* threshold_func (lines 2360-2367)
ThresholdFunc(c) == IF c \in TailClasses THEN Fin(1, 1) ELSE Fin(0, 1)

\* F.one_hot (lines 2333, 2642)
OneHot(gt, c) == IF c = gt THEN Fin(1, 1) ELSE Fin(0, 1)

\* eql_w = 1. - E * T * (1. - y_t) * correlation (lines 2338-2339, 2647-2648),
\* correlation being 1 at the classes of top_index
EqlW(est, gt, top_index, mi, E) ==
    [c \in Classes |->
        LET corr == IF c \in Range(top_index) THEN Fin(1000, 1000)
                    ELSE Correlation(est[c], mi, MaxLogit(est))
        IN OneMinus(Times(Times(Times(Fin(E, 1), ThresholdFunc(c)),
                                OneMinus(OneHot(gt, c))),
                          corr))]

InitAEQL ==
    /\ pc = "aeql_topk"
    /\ \E lv \in [{"tail", "low", "rest"} -> LogitLevels], gt \in Classes :
          aeql_in = [index_uv_est |-> [c \in Classes |-> lv[GroupOf(c)]],
                     index_uv_gt |-> gt]
    /\ aeql_topk = None
    /\ aeql_w = None
    /\ OthersIdle("aeql")

\* lines 2334-2336, 2643-2645
AEQLTopk ==
    /\ pc = "aeql_topk"
    /\ \E order \in {"low_first", "high_first"} :
          LET top_index == TopIndex(aeql_in.index_uv_est, order)
          IN aeql_topk' = [top_index |-> top_index,
                           mi |-> aeql_in.index_uv_est[top_index[TopK]]]
    /\ pc' = "aeql_weights"
    /\ UNCHANGED <<aeql_in, aeql_w>>
    /\ UNCHANGED notAEQL

\* lines 2331, 2337-2339, 2640, 2646-2648; E is the draw of exclude_func
\* for the point (lines 2353-2358)
AEQLWeights ==
    /\ pc = "aeql_weights"
    /\ \E E \in {0, 1} :
          aeql_w' = EqlW(aeql_in.index_uv_est, aeql_in.index_uv_gt,
                         aeql_topk.top_index, aeql_topk.mi, E)
    /\ pc' = "aeql_done"
    /\ UNCHANGED <<aeql_in, aeql_topk>>
    /\ UNCHANGED notAEQL

NextAEQL ==
    \/ AEQLTopk
    \/ AEQLWeights

SpecAEQL == InitAEQL /\ [][NextAEQL]_vars

IsOne(w) == w.kind = "fin" /\ w.num = w.den

\* C10: eql_w[j, c] is 1 whenever c is the ground-truth class of point j or
\* c is not a tail class, and every weight lies in [0, 1]
CexEqlWeights ==
    pc = "aeql_done" =>
        \A c \in Classes :
            /\ (c = aeql_in.index_uv_gt \/ c \notin TailClasses) => IsOne(aeql_w[c])
            /\ InUnitInterval(aeql_w[c])

(***************************************************************************)
(* dp_keypoint_rcnn_loss                                                   *)
(*                                                                         *)
(* An image of instances is a sequence of instances, an instance the       *)
(* sequence of the valid flags keypoints.to_heatmap gives its K keypoints. *)
(* Row r (0-based) of the (N * K, H * W) logits has cross-entropy          *)
(* RowLoss(r) against its target; a loss is the rational num / den.        *)
(***************************************************************************)
MaxKptImages == 2       \* images passed to dp_keypoint_rcnn_loss
MaxKptInstances == 2    \* instances of one image

\* K of pred_keypoint_logits
KeypointCounts == {1, 2}

\* the normalizer argument: <<>> is None, <<n>> the number n
NoNormalizer == <<>>

Normalizers == {NoNormalizer, <<1>>, <<2>>, <<3>>}

KptInstances(K) == [1..K -> BOOLEAN]

KptImages(K) == UNION { [1..n -> KptInstances(K)] : n \in 0..MaxKptInstances }

KptBatches(K) == UNION { [1..n -> KptImages(K)] : n \in 0..MaxKptImages }

\* Tensor.view(-1) of the (n, K) flags of one image
RECURSIVE Flatten(_)
Flatten(rows) == IF rows = <<>> THEN <<>> ELSE rows[1] \o Flatten(Tail(rows))

\* F.cross_entropy of one row against its target (line 1290), per row
RowLoss(r) == r + 1

\* torch.nonzero(valid).squeeze(1) (line 1279): 0-based positions of the
\* flags that are set
Nonzero(flags) == { r \in 0..(Len(flags) - 1) : flags[r + 1] }

RECURSIVE SumOver(_)
SumOver(S) ==
    IF S = {} THEN 0
    ELSE LET r == CHOOSE x \in S : TRUE IN RowLoss(r) + SumOver(S \ {r})

DefaultNormalizerRows(nvalid, nrows) == nrows

\* line 1296: valid.numel()
DefaultNormalizer(nvalid, nrows) == nvalid

ZeroLoss == [kind |-> "zero", of |-> "pred_keypoint_logits"]

InitKeypointLoss ==
    /\ pc = "kpt_loop"
    /\ \E K \in KeypointCounts :
          \E b \in KptBatches(K), nz \in Normalizers :
              kpt_args = [instances |-> b, normalizer |-> nz, K |-> K]
    /\ kpt_i = 1
    /\ kpt_heatmaps = <<>>
    /\ kpt_valid = <<>>
    /\ kpt_ret = None
    /\ OthersIdle("keypoint_loss")

\* lines 1266-1268: an image without instances is skipped
KptSkipImage ==
    /\ pc = "kpt_loop"
    /\ kpt_i <= Len(kpt_args.instances)
    /\ Len(kpt_args.instances[kpt_i]) = 0
    /\ kpt_i' = kpt_i + 1
    /\ UNCHANGED <<pc, kpt_args, kpt_heatmaps, kpt_valid, kpt_ret>>
    /\ UNCHANGED notKeypointLoss

\* lines 1269-1274
KptAppendImage ==
    /\ pc = "kpt_loop"
    /\ kpt_i <= Len(kpt_args.instances)
    /\ Len(kpt_args.instances[kpt_i]) # 0
    /\ kpt_heatmaps' = Append(kpt_heatmaps, Len(kpt_args.instances[kpt_i]) * kpt_args.K)
    /\ kpt_valid' = Append(kpt_valid, Flatten(kpt_args.instances[kpt_i]))
    /\ kpt_i' = kpt_i + 1
    /\ UNCHANGED <<pc, kpt_args, kpt_ret>>
    /\ UNCHANGED notKeypointLoss

\* lines 1276-1285
KptReturnZero ==
    /\ pc = "kpt_loop"
    /\ kpt_i > Len(kpt_args.instances)
    /\ Len(kpt_heatmaps) = 0 \/ Nonzero(Flatten(kpt_valid)) = {}
    /\ kpt_ret' = ZeroLoss
    /\ pc' = "kpt_done"
    /\ UNCHANGED <<kpt_args, kpt_i, kpt_heatmaps, kpt_valid>>
    /\ UNCHANGED notKeypointLoss

\* lines 1276-1279, 1287-1299
KptReturnLoss ==
    /\ pc = "kpt_loop"
    /\ kpt_i > Len(kpt_args.instances)
    /\ ~(Len(kpt_heatmaps) = 0 \/ Nonzero(Flatten(kpt_valid)) = {})
    /\ LET valid == Nonzero(Flatten(kpt_valid))
           normalizer == IF kpt_args.normalizer = NoNormalizer
                         THEN DefaultNormalizer(Cardinality(valid), SumSeq(kpt_heatmaps))
                         ELSE kpt_args.normalizer[1]
       IN kpt_ret' = [kind |-> "loss", num |-> SumOver(valid), den |-> normalizer]
    /\ pc' = "kpt_done"
    /\ UNCHANGED <<kpt_args, kpt_i, kpt_heatmaps, kpt_valid>>
    /\ UNCHANGED notKeypointLoss

NextKeypointLoss ==
    \/ KptSkipImage
    \/ KptAppendImage
    \/ KptReturnZero
    \/ KptReturnLoss

SpecKeypointLoss == InitKeypointLoss /\ [][NextKeypointLoss]_vars

\* the valid keypoints of the minibatch: rows of the logits, in image order
ValidKeypoints(instances) ==
    LET flags == Flatten([i \in 1..Len(instances) |-> Flatten(instances[i])])
    IN { r \in 0..(Len(flags) - 1) : flags[r + 1] }

\* C11: the loss is the zero pred_keypoint_logits.sum() * 0 when no image
\* has instances or no keypoint is valid; otherwise it is the cross-entropy
\* summed over the valid keypoints, divided by the normalizer, which is the
\* number of valid keypoints when normalizer is None
ThmKeypointLoss ==
    pc = "kpt_done" =>
        LET valid == ValidKeypoints(kpt_args.instances)
        IN IF valid = {}
           THEN kpt_ret = ZeroLoss
           ELSE /\ kpt_ret.kind = "loss"
                /\ kpt_ret.num = SumOver(valid)
                /\ kpt_ret.den = IF kpt_args.normalizer = NoNormalizer
                                 THEN Cardinality(valid) ELSE kpt_args.normalizer[1]

WitKeypointLoss ==
    /\ pc = "kpt_done"
    /\ Len(kpt_args.instances) = 2
    /\ Len(kpt_args.instances[1]) = 0
    /\ Len(kpt_args.instances[2]) = 2
    /\ kpt_args.K = 2
    /\ kpt_args.normalizer = NoNormalizer
    /\ kpt_ret.kind = "loss"
    /\ kpt_ret.den = 2
    /\ kpt_ret.num = RowLoss(1) + RowLoss(2)

(***************************************************************************)
(* _extract_single_tensors_from_matches and its _v2 variant                *)
(*                                                                         *)
(* The batches are those of the loss objects.  A box is identified by      *)
(* <<i, k>>, image i of enumerate and box k of the image (both 0-based),   *)
(* which stands for its row of coordinates; a ground-truth point by        *)
(* <<i, k, p>>.  Indices held in tensors are 0-based as in the code.       *)
(* The _v2 variant (lines 2692-2829) runs the same statements and builds   *)
(* one list more, m_gt_all, which none of the indices depends on.          *)
(***************************************************************************)
ExtractVariants == {"_extract_single_tensors_from_matches",
                    "_extract_single_tensors_from_matches_v2"}

BboxIndexLocal(bbox_with_dp_offset, len_i_with_dp) == len_i_with_dp

\* the value of i_bbox_k (lines 1791, 2738)
BboxIndex(bbox_with_dp_offset, len_i_with_dp) == bbox_with_dp_offset + len_i_with_dp

AdvanceNByOne(n, n_i) == n + 1

\* n += n_i (lines 1850, 2797)
AdvanceN(n, n_i) == n + n_i

EmptyImageLists ==
    [i_gt_all |-> <<>>, bbox_xywh_gt_all |-> <<>>, bbox_xywh_est_all |-> <<>>,
     i_bbox_all |-> <<>>, i_with_dp |-> <<>>]

\* the loop of _extract_single_tensors_from_matches_one_image (lines
\* 1779-1793) from box k on; acc holds the lists built so far and i is the
\* image the boxes belong to
RECURSIVE OneImageFrom(_, _, _, _, _, _)
OneImageFrom(inst, i, bbox_with_dp_offset, bbox_global_offset, k, acc) ==
    IF k >= Len(inst.boxes) THEN acc
    ELSE LET dp_gt == inst.boxes[k + 1]
         IN IF ~dp_gt.dp_none /\ dp_gt.npoints > 0
            THEN OneImageFrom(inst, i, bbox_with_dp_offset, bbox_global_offset, k + 1,
                    [i_gt_all |-> Append(acc.i_gt_all,
                                         [p \in 1..dp_gt.npoints |-> <<i, k, p - 1>>]),
                     bbox_xywh_gt_all |-> Append(acc.bbox_xywh_gt_all, <<i, k>>),
                     bbox_xywh_est_all |-> Append(acc.bbox_xywh_est_all, <<i, k>>),
                     i_bbox_all |-> Append(acc.i_bbox_all,
                                           [p \in 1..dp_gt.npoints |->
                                               BboxIndex(bbox_with_dp_offset,
                                                         Len(acc.i_with_dp))]),
                     i_with_dp |-> Append(acc.i_with_dp, bbox_global_offset + k)])
            ELSE OneImageFrom(inst, i, bbox_with_dp_offset, bbox_global_offset, k + 1, acc)

\* _extract_single_tensors_from_matches_one_image (lines 1748-1805) and its
\* _v2 variant (lines 2693-2757)
OneImage(inst, i, bbox_with_dp_offset, bbox_global_offset) ==
    IF Len(inst.boxes) # 0 /\ inst.has_dp
    THEN OneImageFrom(inst, i, bbox_with_dp_offset, bbox_global_offset, 0, EmptyImageLists)
    ELSE EmptyImageLists

\* [i] * count
Repeat(i, count) == [j \in 1..count |-> i]

InitExtract ==
    /\ pc = "ext_loop"
    /\ \E b \in GtBatches, v \in ExtractVariants :
          ext_args = [proposals_with_targets |-> b, variant |-> v]
    /\ ext_i = 1
    /\ ext_n = 0
    /\ ext_lists = [i_img |-> <<>>, i_gt_all |-> <<>>, bbox_xywh_gt_all |-> <<>>,
                    bbox_xywh_est_all |-> <<>>, i_bbox_all |-> <<>>,
                    i_with_dp_all |-> <<>>]
    /\ ext_ret = None
    /\ OthersIdle("extract")

\* lines 1821-1824, 2780-2783: an image without proposals is skipped
ExtSkipImage ==
    /\ pc = "ext_loop"
    /\ ext_i <= Len(ext_args.proposals_with_targets)
    /\ Len(ext_args.proposals_with_targets[ext_i].boxes) = 0
    /\ ext_i' = ext_i + 1
    /\ UNCHANGED <<pc, ext_args, ext_n, ext_lists, ext_ret>>
    /\ UNCHANGED notExtract

\* lines 1825-1850, 2784-2797
ExtImage ==
    /\ pc = "ext_loop"
    /\ ext_i <= Len(ext_args.proposals_with_targets)
    /\ Len(ext_args.proposals_with_targets[ext_i].boxes) # 0
    /\ LET inst == ext_args.proposals_with_targets[ext_i]
           img == OneImage(inst, ext_i - 1, Len(ext_lists.i_with_dp_all), ext_n)
       IN /\ ext_lists' =
                [i_img |-> ext_lists.i_img \o Repeat(ext_i - 1, Len(img.i_with_dp)),
                 i_gt_all |-> ext_lists.i_gt_all \o img.i_gt_all,
                 bbox_xywh_gt_all |-> ext_lists.bbox_xywh_gt_all \o img.bbox_xywh_gt_all,
                 bbox_xywh_est_all |-> ext_lists.bbox_xywh_est_all \o img.bbox_xywh_est_all,
                 i_bbox_all |-> ext_lists.i_bbox_all \o img.i_bbox_all,
                 i_with_dp_all |-> ext_lists.i_with_dp_all \o img.i_with_dp]
          /\ ext_n' = AdvanceN(ext_n, Len(inst.boxes))
    /\ ext_i' = ext_i + 1
    /\ UNCHANGED <<pc, ext_args, ext_ret>>
    /\ UNCHANGED notExtract

\* lines 1851-1884, 2798-2829: the lists are concatenated, or None is
\* returned in their place
ExtReturn ==
    /\ pc = "ext_loop"
    /\ ext_i > Len(ext_args.proposals_with_targets)
    /\ ext_ret' =
          IF ext_n > 0 /\ Len(ext_lists.i_with_dp_all) > 0
          THEN [i_img |-> ext_lists.i_img,
                i_with_dp |-> ext_lists.i_with_dp_all,
                cat |-> TRUE,
                bbox_xywh_est |-> ext_lists.bbox_xywh_est_all,
                bbox_xywh_gt |-> ext_lists.bbox_xywh_gt_all,
                i_gt |-> Flatten(ext_lists.i_gt_all),
                i_bbox |-> Flatten(ext_lists.i_bbox_all)]
          ELSE [i_img |-> ext_lists.i_img,
                i_with_dp |-> ext_lists.i_with_dp_all,
                cat |-> FALSE,
                bbox_xywh_est |-> <<>>,
                bbox_xywh_gt |-> <<>>,
                i_gt |-> <<>>,
                i_bbox |-> <<>>]
    /\ pc' = "ext_done"
    /\ UNCHANGED <<ext_args, ext_i, ext_n, ext_lists>>
    /\ UNCHANGED notExtract

NextExtract ==
    \/ ExtSkipImage
    \/ ExtImage
    \/ ExtReturn

SpecExtract == InitExtract /\ [][NextExtract]_vars

\* the boxes of all images of a batch, concatenated in image order
RECURSIVE AllProposalsFrom(_, _)
AllProposalsFrom(batch, i) ==
    IF i > Len(batch) THEN <<>>
    ELSE [k \in 1..Len(batch[i].boxes) |-> <<i - 1, k - 1>>] \o AllProposalsFrom(batch, i + 1)

AllProposals(batch) == AllProposalsFrom(batch, 1)

\* a box with DensePose annotations: of an image that carries gt_densepose,
\* with an annotation that holds at least one point
AnnotatedBox(batch, id) ==
    LET inst == batch[id[1] + 1]
        dp_gt == inst.boxes[id[2] + 1]
    IN inst.has_dp /\ ~dp_gt.dp_none /\ dp_gt.npoints > 0

\* 0-based positions, within the concatenation, of the annotated boxes
AnnotatedPositions(batch) ==
    { p \in 0..(Len(AllProposals(batch)) - 1) :
        AnnotatedBox(batch, AllProposals(batch)[p + 1]) }

\* C12: when the extraction returns, the j-th entry of i_with_dp is the
\* position of the j-th annotated box in the concatenation of the proposals
\* of all images in image order: i_with_dp is strictly increasing, every
\* entry is smaller than the total number of proposals, and the rows it
\* selects are exactly those of the annotated boxes.
ThmIWithDpPositions ==
    pc = "ext_done" =>
        LET batch == ext_args.proposals_with_targets
            i_with_dp == ext_ret.i_with_dp
        IN /\ \A j \in 1..(Len(i_with_dp) - 1) : i_with_dp[j] < i_with_dp[j + 1]
           /\ \A j \in 1..Len(i_with_dp) :
                 /\ i_with_dp[j] >= 0
                 /\ i_with_dp[j] < Len(AllProposals(batch))
           /\ Range(i_with_dp) = AnnotatedPositions(batch)
           /\ \A j \in 1..Len(i_with_dp) :
                 AllProposals(batch)[i_with_dp[j] + 1] = ext_ret.bbox_xywh_est[j]
           /\ i_with_dp = ExtractIWithDp(batch)

\* a returned extraction over two images with proposals, the first holding
\* a box without annotation before an annotated one, the second annotated
WitIWithDpPositions ==
    /\ pc = "ext_done"
    /\ Len(ext_args.proposals_with_targets) = 2
    /\ Len(ext_args.proposals_with_targets[1].boxes) = 2
    /\ Len(ext_ret.i_with_dp) = 2
    /\ ext_ret.i_with_dp[1] = 1
    /\ ext_ret.i_with_dp[2] >= 2

IndicesInMap(r, size_z) ==
    /\ r.v_lo \in 0..(size_z - 1)
    /\ r.v_hi \in 0..(size_z - 1)
    /\ r.v_lo <= r.v_hi
    /\ r.v_hi <= r.v_lo + 1

\* C14: for every input point, those outside the destination interval and
\* those of an empty destination interval included,
\* _linear_interpolation_utilities returns indices v_lo and v_hi that are
\* integers in [0, size_z - 1] with v_lo <= v_hi <= v_lo + 1.
ThmIndicesInMap ==
    /\ pc \in {"grid_y", "grid_w", "grid_done"} => IndicesInMap(grid_x, grid_args.zw)
    /\ pc \in {"grid_w", "grid_done"} => IndicesInMap(grid_y, grid_args.zh)

\* both axes interpolated: the x coordinate lies left of the destination
\* interval, the y coordinate right of it, and the y index was clamped to
\* the last cell of a map of two
WitIndicesInMap ==
    /\ pc = "grid_w"
    /\ ~grid_x.j_valid
    /\ Offset256(grid_args.x_norm, grid_args.bbox_xywh_gt.x0, grid_args.bbox_xywh_gt.w,
                 grid_args.bbox_xywh_est.x0) < 0
    /\ grid_x.v_lo = 0
    /\ ~grid_y.j_valid
    /\ grid_args.bbox_xywh_est.h > 0
    /\ Offset256(grid_args.y_norm, grid_args.bbox_xywh_gt.y0, grid_args.bbox_xywh_gt.h,
                 grid_args.bbox_xywh_est.y0) >= 256 * grid_args.bbox_xywh_est.h
    /\ grid_args.zh = 2
    /\ grid_y.v_lo = 1
    /\ grid_y.v_hi = 1

\* v lies in the interval (v0_dst, v0_dst + size_dst), for the point
\* v = v0_src + v_norm * size_src / 256.0; both sides are scaled by 256
InsideInterval(v_norm, v0_src, size_src, v0_dst, size_dst) ==
    LET v256 == v0_src * 256 + v_norm * size_src
    IN v0_dst * 256 < v256 /\ v256 < (v0_dst + size_dst) * 256

\* C15: _linear_interpolation_utilities returns j_valid = 0 for points
\* outside the interval (v0_dst, v0_dst + size_dst) and 1 otherwise, where
\* the point is v = v0_src + v_norm * size_src / 256.0, and
\* _grid_sampling_utilities marks a point valid only when both its x and
\* its y coordinate are valid.
CexJValidInterval ==
    /\ pc \in {"grid_y", "grid_w", "grid_done"} =>
          grid_x.j_valid = InsideInterval(grid_args.x_norm,
                                          grid_args.bbox_xywh_gt.x0, grid_args.bbox_xywh_gt.w,
                                          grid_args.bbox_xywh_est.x0, grid_args.bbox_xywh_est.w)
    /\ pc \in {"grid_w", "grid_done"} =>
          grid_y.j_valid = InsideInterval(grid_args.y_norm,
                                          grid_args.bbox_xywh_gt.y0, grid_args.bbox_xywh_gt.h,
                                          grid_args.bbox_xywh_est.y0, grid_args.bbox_xywh_est.h)
    /\ pc = "grid_done" => (grid_ret.j_valid => grid_x.j_valid /\ grid_y.j_valid)

====
